---- MODULE Spec2Model ----
(***************************************************************************)
(* primitive_db: a file-backed record store with typed columns.            *)
(*                                                                         *)
(* Text is modelled as a sequence of one-character strings, so that        *)
(* strip/lower/upper/int()/json.dumps are computed character by character. *)
(* A Python value is a tagged record (kind k, integer i, text s, bool b).  *)
(* A row (a Python dict, which keeps insertion order) is a sequence of     *)
(* entries [name, val]; a schema is a sequence of columns [name, type].    *)
(***************************************************************************)
EXTENDS Integers, Sequences, FiniteSets, TLC

\* ------------------------------------------------------------------ bounds
\* most rows a table file holds in the model
MaxRows == 2
\* largest ID an insert may generate in the model
MaxId == 3
\* most entries the select cache holds in the model
MaxCache == 2
\* longest value list text, longest quoted text of a condition and most
\* tokens of a condition handed to the parser
MaxChars == 4
MaxInner == 2
MaxTokens == 4
\* longest text handed to _coerce_value
MaxText == 2
\* most words after the first word of a command line
MaxWords == 3
\* most entries the select cache holds beside the other commands
FrameCache == 1
\* most rows and largest ID of a table where selects are cached
CacheRows == 1
CacheIds == 1

\* ------------------------------------------------------------------ text
\* the characters of the model, in code point order
Chars ==
    << " ", "\"", "+", ",", "-", "0", "1", "2", "3", "4", "5", "6", "7", "8", "9",
       ":", "=", "A", "B", "C", "D", "E", "F", "I", "L", "N", "O", "R", "S", "T",
       "U", "X", "Y", "\\", "_",
       "a", "b", "c", "d", "e", "f", "i", "l", "n", "o", "r", "s", "t", "u", "x", "y" >>

Ord(c) == CHOOSE i \in 1..Len(Chars) : Chars[i] = c

UpperLetters ==
    << "A", "B", "C", "D", "E", "F", "I", "L", "N", "O", "R", "S", "T", "U", "X", "Y" >>
LowerLetters ==
    << "a", "b", "c", "d", "e", "f", "i", "l", "n", "o", "r", "s", "t", "u", "x", "y" >>

\* str.lower() / str.upper() on one character
LowerChar(c) ==
    IF \E i \in 1..Len(UpperLetters) : UpperLetters[i] = c
    THEN LowerLetters[CHOOSE i \in 1..Len(UpperLetters) : UpperLetters[i] = c]
    ELSE c

UpperChar(c) ==
    IF \E i \in 1..Len(LowerLetters) : LowerLetters[i] = c
    THEN UpperLetters[CHOOSE i \in 1..Len(LowerLetters) : LowerLetters[i] = c]
    ELSE c

Lower(s) == [i \in 1..Len(s) |-> LowerChar(s[i])]
Upper(s) == [i \in 1..Len(s) |-> UpperChar(s[i])]

\* str.strip(): drop leading and trailing whitespace
RECURSIVE LStrip(_)
LStrip(s) == IF s # << >> /\ Head(s) = " " THEN LStrip(Tail(s)) ELSE s

RECURSIVE RStrip(_)
RStrip(s) ==
    IF s # << >> /\ s[Len(s)] = " " THEN RStrip(SubSeq(s, 1, Len(s) - 1)) ELSE s

Strip(s) == RStrip(LStrip(s))

\* first position of character c in s, 0 when absent
IndexOf(s, c) ==
    IF \E i \in 1..Len(s) : s[i] = c
    THEN CHOOSE i \in 1..Len(s) : s[i] = c /\ \A j \in 1..(i - 1) : s[j] # c
    ELSE 0

\* str.startswith, str.endswith
StartsWith(text, prefix) ==
    Len(text) >= Len(prefix) /\ SubSeq(text, 1, Len(prefix)) = prefix

EndsWith(text, suffix) ==
    Len(text) >= Len(suffix)
    /\ SubSeq(text, Len(text) - Len(suffix) + 1, Len(text)) = suffix

\* str.find + 1: first position where sub starts in text, 0 when absent
Find(text, sub) ==
    LET starts == {i \in 1..(Len(text) - Len(sub) + 1) :
                      SubSeq(text, i, i + Len(sub) - 1) = sub}
    IN IF starts = {} THEN 0 ELSE CHOOSE i \in starts : \A j \in starts : i <= j

\* sub in text
Contains(text, sub) == Find(text, sub) # 0

\* text.split(separator, 1): one part when the separator is absent, else two
SplitOnce(text, separator) ==
    IF ~Contains(text, separator) THEN << text >>
    ELSE << SubSeq(text, 1, Find(text, separator) - 1),
            SubSeq(text, Find(text, separator) + Len(separator), Len(text)) >>

\* lexicographic order of str by code point
RECURSIVE StrLess(_, _)
StrLess(a, b) ==
    IF b = << >> THEN FALSE
    ELSE IF a = << >> THEN TRUE
    ELSE IF Head(a) = Head(b) THEN StrLess(Tail(a), Tail(b))
    ELSE Ord(Head(a)) < Ord(Head(b))

Digits == << "0", "1", "2", "3", "4", "5", "6", "7", "8", "9" >>
IsDigit(c) == \E i \in 1..10 : Digits[i] = c
DigitVal(c) == (CHOOSE i \in 1..10 : Digits[i] = c) - 1

RECURSIVE DigitsVal(_, _)
DigitsVal(s, acc) ==
    IF s = << >> THEN acc
    ELSE IF Head(s) = "_" THEN DigitsVal(Tail(s), acc)
    ELSE DigitsVal(Tail(s), 10 * acc + DigitVal(Head(s)))

\* int(str): surrounding whitespace, an optional sign, then digits that single
\* underscores may separate; [ok, val]
PyInt(text) ==
    LET t == Strip(text)
        signed == t # << >> /\ Head(t) \in {"+", "-"}
        body == IF signed THEN Tail(t) ELSE t
        wellFormed ==
            /\ body # << >>
            /\ IsDigit(body[1]) /\ IsDigit(body[Len(body)])
            /\ \A i \in 1..Len(body) : IsDigit(body[i]) \/ body[i] = "_"
            /\ \A i \in 1..(Len(body) - 1) : ~(body[i] = "_" /\ body[i + 1] = "_")
    IN IF ~wellFormed THEN [ok |-> FALSE, val |-> 0]
       ELSE [ok |-> TRUE,
             val |-> IF signed /\ Head(t) = "-" THEN 0 - DigitsVal(body, 0)
                     ELSE DigitsVal(body, 0)]

\* repr of an integer in base 10
RECURSIVE NatStr(_)
NatStr(n) ==
    IF n < 10 THEN << Digits[n + 1] >>
    ELSE NatStr(n \div 10) \o << Digits[(n % 10) + 1] >>

IntStr(n) == IF n < 0 THEN << "-" >> \o NatStr(0 - n) ELSE NatStr(n)

\* ---------------------------------------------------------------- values
IntV(n) == [k |-> "int", i |-> n, s |-> << >>, b |-> FALSE]
StrV(t) == [k |-> "str", i |-> 0, s |-> t, b |-> FALSE]
BoolV(x) == [k |-> "bool", i |-> 0, s |-> << >>, b |-> x]
NoneV == [k |-> "none", i |-> 0, s |-> << >>, b |-> FALSE]

\* the number Python compares an int or a bool as (bool is a subclass of int)
Num(v) == IF v.k = "bool" THEN (IF v.b THEN 1 ELSE 0) ELSE v.i

\* Python ==  on None, int, bool and str
PyEq(x, y) ==
    IF x.k \in {"int", "bool"} /\ y.k \in {"int", "bool"} THEN Num(x) = Num(y)
    ELSE IF x.k = "str" /\ y.k = "str" THEN x.s = y.s
    ELSE x.k = "none" /\ y.k = "none"

\* ------------------------------------------------------------- constants
TInt == << "i", "n", "t" >>
TStr == << "s", "t", "r" >>
TBool == << "b", "o", "o", "l" >>
ALLOWED_TYPES == {TInt, TStr, TBool}
ID == << "I", "D" >>

\* ---------------------------------------------------------------- schema
\* the loop of _parse_columns over raw_columns[i..]; [ok, columns]
RECURSIVE parse_columns_from(_, _, _, _)
parse_columns_from(raw_columns, i, used_names, parsed_columns) ==
    IF i > Len(raw_columns) THEN [ok |-> TRUE, columns |-> parsed_columns]
    ELSE
        LET raw_column == raw_columns[i]
            colon == IndexOf(raw_column, ":")
            column_name == Strip(SubSeq(raw_column, 1, colon - 1))
            column_type == Strip(SubSeq(raw_column, colon + 1, Len(raw_column)))
        IN IF colon = 0 THEN [ok |-> FALSE, columns |-> << >>]
           ELSE IF column_name = << >> \/ Upper(column_name) = ID
                THEN [ok |-> FALSE, columns |-> << >>]
           ELSE IF column_name \in used_names \/ column_type \notin ALLOWED_TYPES
                THEN [ok |-> FALSE, columns |-> << >>]
           ELSE parse_columns_from(
                    raw_columns, i + 1, used_names \cup {column_name},
                    Append(parsed_columns, [name |-> column_name, type |-> column_type]))

\* a mutation of _parse_columns: the reserved name is compared without upper()
RECURSIVE parse_columns_from_exact_id(_, _, _, _)
parse_columns_from_exact_id(raw_columns, i, used_names, parsed_columns) ==
    IF i > Len(raw_columns) THEN [ok |-> TRUE, columns |-> parsed_columns]
    ELSE
        LET raw_column == raw_columns[i]
            colon == IndexOf(raw_column, ":")
            column_name == Strip(SubSeq(raw_column, 1, colon - 1))
            column_type == Strip(SubSeq(raw_column, colon + 1, Len(raw_column)))
        IN IF colon = 0 THEN [ok |-> FALSE, columns |-> << >>]
           ELSE IF column_name = << >> \/ column_name = ID
                THEN [ok |-> FALSE, columns |-> << >>]
           ELSE IF column_name \in used_names \/ column_type \notin ALLOWED_TYPES
                THEN [ok |-> FALSE, columns |-> << >>]
           ELSE parse_columns_from_exact_id(
                    raw_columns, i + 1, used_names \cup {column_name},
                    Append(parsed_columns, [name |-> column_name, type |-> column_type]))

parse_columns_exact_id(raw_columns) ==
    parse_columns_from_exact_id(raw_columns, 1, {ID}, << >>)

parse_columns(raw_columns) == parse_columns_from(raw_columns, 1, {ID}, << >>)

\* dict with one more (or a replaced) key
DictSet(d, key, value) == [n \in DOMAIN d \cup {key} |-> IF n = key THEN value ELSE d[n]]

\* dict without a key
DictDel(d, key) == [n \in DOMAIN d \ {key} |-> d[n]]

\* a mutation of create_table: an existing table is replaced
create_table_overwrites(metadata, table_name, columns) ==
    LET parsed == parse_columns(columns)
    IN IF columns = << >> THEN [ok |-> FALSE, metadata |-> metadata]
       ELSE IF ~parsed.ok THEN [ok |-> FALSE, metadata |-> metadata]
       ELSE [ok |-> TRUE,
             metadata |-> DictSet(metadata, table_name,
                 [columns |-> << [name |-> ID, type |-> TInt] >> \o parsed.columns])]

\* a mutation of create_table: the ID column is added after the declared ones
create_table_id_last(metadata, table_name, columns) ==
    LET parsed == parse_columns(columns)
    IN IF table_name \in DOMAIN metadata THEN [ok |-> FALSE, metadata |-> metadata]
       ELSE IF columns = << >> THEN [ok |-> FALSE, metadata |-> metadata]
       ELSE IF ~parsed.ok THEN [ok |-> FALSE, metadata |-> metadata]
       ELSE [ok |-> TRUE,
             metadata |-> DictSet(metadata, table_name,
                 [columns |-> parsed.columns \o << [name |-> ID, type |-> TInt] >>])]

\* create_table under handle_db_errors; [ok, metadata]
create_table(metadata, table_name, columns) ==
    LET parsed == parse_columns(columns)
    IN IF table_name \in DOMAIN metadata THEN [ok |-> FALSE, metadata |-> metadata]
       ELSE IF columns = << >> THEN [ok |-> FALSE, metadata |-> metadata]
       ELSE IF ~parsed.ok THEN [ok |-> FALSE, metadata |-> metadata]
       ELSE [ok |-> TRUE,
             metadata |-> DictSet(metadata, table_name,
                 [columns |-> << [name |-> ID, type |-> TInt] >> \o parsed.columns])]

\* a mutation of confirm_action: every answer counts as yes
confirmed_whatever(answer) == answer = answer

\* confirm_action: the operation runs only on the answer y
confirmed(answer) == Lower(Strip(answer)) = << "y" >>

\* drop_table under handle_db_errors and confirm_action; [ok, metadata]
drop_table(metadata, table_name, answer) ==
    IF ~confirmed(answer) THEN [ok |-> FALSE, metadata |-> metadata]
    ELSE IF table_name \notin DOMAIN metadata THEN [ok |-> FALSE, metadata |-> metadata]
    ELSE [ok |-> TRUE, metadata |-> DictDel(metadata, table_name)]

\* _column_types: the type of a declared column (the last one of that name)
HasColumn(columns, name) == \E i \in 1..Len(columns) : columns[i].name = name

column_type_of(columns, name) ==
    columns[CHOOSE i \in 1..Len(columns) :
        columns[i].name = name /\ \A j \in (i + 1)..Len(columns) : columns[j].name # name].type

\* list_tables: the names of the catalog (their order is not modelled)
list_tables(metadata) == DOMAIN metadata

\* ", ".join(f'{name}:{type}' for the columns)
RECURSIVE JoinColumns(_)
JoinColumns(columns) ==
    IF columns = << >> THEN << >>
    ELSE Head(columns).name \o << ":" >> \o Head(columns).type
         \o (IF Len(columns) > 1 THEN << ",", " " >> ELSE << >>)
         \o JoinColumns(Tail(columns))

\* get_table_info under handle_db_errors; [ok, table, columns, rows_count]
get_table_info(metadata, table_name, table_data) ==
    IF table_name \notin DOMAIN metadata
    THEN [ok |-> FALSE, table |-> << >>, columns |-> << >>, rows_count |-> 0]
    ELSE [ok |-> TRUE, table |-> table_name,
          columns |-> JoinColumns(metadata[table_name].columns),
          rows_count |-> Len(table_data)]

\* -------------------------------------------------------------- coercion
\* a mutation of _coerce_value: the int branch lacks the bool check
coerce_value_bool_as_int(value, expected_type) ==
    IF expected_type = TInt THEN
        IF value.k \in {"int", "bool"} THEN [ok |-> TRUE, val |-> value]
        ELSE IF value.k = "str" /\ PyInt(value.s).ok
             THEN [ok |-> TRUE, val |-> IntV(PyInt(value.s).val)]
        ELSE [ok |-> FALSE, val |-> NoneV]
    ELSE IF expected_type = TStr THEN
        IF value.k = "str" THEN [ok |-> TRUE, val |-> value]
        ELSE [ok |-> FALSE, val |-> NoneV]
    ELSE IF expected_type = TBool THEN
        IF value.k = "bool" THEN [ok |-> TRUE, val |-> value]
        ELSE IF value.k = "str" /\ Lower(value.s) = << "t", "r", "u", "e" >>
             THEN [ok |-> TRUE, val |-> BoolV(TRUE)]
        ELSE IF value.k = "str" /\ Lower(value.s) = << "f", "a", "l", "s", "e" >>
             THEN [ok |-> TRUE, val |-> BoolV(FALSE)]
        ELSE [ok |-> FALSE, val |-> NoneV]
    ELSE [ok |-> FALSE, val |-> NoneV]

\* _coerce_value; [ok, val], ok = FALSE for ValueError
coerce_value(value, expected_type) ==
    IF expected_type = TInt THEN
        IF value.k = "bool" THEN [ok |-> FALSE, val |-> NoneV]
        ELSE IF value.k = "int" THEN [ok |-> TRUE, val |-> value]
        ELSE IF value.k = "str" /\ PyInt(value.s).ok
             THEN [ok |-> TRUE, val |-> IntV(PyInt(value.s).val)]
        ELSE [ok |-> FALSE, val |-> NoneV]
    ELSE IF expected_type = TStr THEN
        IF value.k = "str" THEN [ok |-> TRUE, val |-> value]
        ELSE [ok |-> FALSE, val |-> NoneV]
    ELSE IF expected_type = TBool THEN
        IF value.k = "bool" THEN [ok |-> TRUE, val |-> value]
        ELSE IF value.k = "str" /\ Lower(value.s) = << "t", "r", "u", "e" >>
             THEN [ok |-> TRUE, val |-> BoolV(TRUE)]
        ELSE IF value.k = "str" /\ Lower(value.s) = << "f", "a", "l", "s", "e" >>
             THEN [ok |-> TRUE, val |-> BoolV(FALSE)]
        ELSE [ok |-> FALSE, val |-> NoneV]
    ELSE [ok |-> FALSE, val |-> NoneV]

\* a where or set clause: a dict with the single entry col: val
Clause(col, val) == [col |-> col, val |-> val]
NoClause == Clause(<< >>, NoneV)

\* ---------------------------------------------------------------- parser
\* parse_scalar; [ok, val]
parse_scalar(value_text) ==
    LET text == Strip(value_text)
        lowered == Lower(text)
    IN IF Len(text) >= 2 /\ text[1] = "\"" /\ text[Len(text)] = "\""
       THEN [ok |-> TRUE, val |-> StrV(SubSeq(text, 2, Len(text) - 1))]
       ELSE IF lowered = << "t", "r", "u", "e" >> THEN [ok |-> TRUE, val |-> BoolV(TRUE)]
       ELSE IF lowered = << "f", "a", "l", "s", "e" >>
            THEN [ok |-> TRUE, val |-> BoolV(FALSE)]
       ELSE IF PyInt(text).ok THEN [ok |-> TRUE, val |-> IntV(PyInt(text).val)]
       ELSE [ok |-> FALSE, val |-> NoneV]

\* the loop of split_csv_values from character i on
RECURSIVE split_csv_loop(_, _, _, _, _)
split_csv_loop(values_text, i, values, current, in_quotes) ==
    IF i > Len(values_text)
    THEN [values |-> values, current |-> current, in_quotes |-> in_quotes]
    ELSE LET char == values_text[i]
         IN IF char = "\""
            THEN split_csv_loop(values_text, i + 1, values, Append(current, char),
                                ~in_quotes)
            ELSE IF char = "," /\ ~in_quotes
                 THEN split_csv_loop(values_text, i + 1, Append(values, Strip(current)),
                                     << >>, in_quotes)
            ELSE split_csv_loop(values_text, i + 1, values, Append(current, char),
                                in_quotes)

\* split_csv_values; [ok, values]
split_csv_values(values_text) ==
    LET end == split_csv_loop(values_text, 1, << >>, << >>, FALSE)
        values == IF end.current # << >> THEN Append(end.values, Strip(end.current))
                  ELSE end.values
    IN IF end.in_quotes THEN [ok |-> FALSE, values |-> << >>]
       ELSE IF values = << >> \/ \E v \in 1..Len(values) : values[v] = << >>
            THEN [ok |-> FALSE, values |-> << >>]
       ELSE [ok |-> TRUE, values |-> values]

\* str.split(): the maximal runs of non-whitespace characters, in order
Split(text) ==
    LET starts == {i \in 1..Len(text) :
                      text[i] # " " /\ (i = 1 \/ text[i - 1] = " ")}
        Start(k) == CHOOSE i \in starts : Cardinality({j \in starts : j <= i}) = k
        End(i) == CHOOSE e \in i..Len(text) :
                      /\ \A j \in i..e : text[j] # " "
                      /\ e = Len(text) \/ text[e + 1] = " "
    IN [k \in 1..Cardinality(starts) |-> SubSeq(text, Start(k), End(Start(k)))]

\* separator.join(tokens)
RECURSIVE Join(_, _)
Join(separator, tokens) ==
    IF tokens = << >> THEN << >>
    ELSE IF Len(tokens) = 1 THEN tokens[1]
    ELSE tokens[1] \o separator \o Join(separator, Tail(tokens))

\* a mutation of parse_condition: the last "=" token separates the two sides
parse_condition_last_eq(tokens) ==
    IF Len(tokens) < 3 \/ ~\E i \in 1..Len(tokens) : tokens[i] = << "=" >>
    THEN [ok |-> FALSE, clause |-> NoClause]
    ELSE LET eq_index == CHOOSE i \in 1..Len(tokens) :
                             /\ tokens[i] = << "=" >>
                             /\ \A j \in (i + 1)..Len(tokens) : tokens[j] # << "=" >>
             column == Strip(Join(<< >>, SubSeq(tokens, 1, eq_index - 1)))
             value_text == Strip(Join(<< " " >>, SubSeq(tokens, eq_index + 1, Len(tokens))))
         IN IF column = << >> \/ value_text = << >> \/ ~parse_scalar(value_text).ok
            THEN [ok |-> FALSE, clause |-> NoClause]
            ELSE [ok |-> TRUE, clause |-> Clause(column, parse_scalar(value_text).val)]

\* parse_condition; [ok, clause]
parse_condition(tokens) ==
    IF Len(tokens) < 3 \/ ~\E i \in 1..Len(tokens) : tokens[i] = << "=" >>
    THEN [ok |-> FALSE, clause |-> NoClause]
    ELSE LET eq_index == CHOOSE i \in 1..Len(tokens) :
                             /\ tokens[i] = << "=" >>
                             /\ \A j \in 1..(i - 1) : tokens[j] # << "=" >>
             column == Strip(Join(<< >>, SubSeq(tokens, 1, eq_index - 1)))
             value_text == Strip(Join(<< " " >>, SubSeq(tokens, eq_index + 1, Len(tokens))))
         IN IF column = << >> \/ value_text = << >> \/ ~parse_scalar(value_text).ok
            THEN [ok |-> FALSE, clause |-> NoClause]
            ELSE [ok |-> TRUE, clause |-> Clause(column, parse_scalar(value_text).val)]

\* a mutation of normalize_where_clause: the value is passed on as given
normalize_where_clause_uncoerced(metadata, table_name, where_clause) ==
    IF table_name \notin DOMAIN metadata THEN [ok |-> FALSE, clause |-> NoClause]
    ELSE IF ~HasColumn(metadata[table_name].columns, where_clause.col)
         THEN [ok |-> FALSE, clause |-> NoClause]
    ELSE [ok |-> TRUE, clause |-> where_clause]

\* normalize_where_clause under handle_db_errors; [ok, clause]
normalize_where_clause(metadata, table_name, where_clause) ==
    IF table_name \notin DOMAIN metadata THEN [ok |-> FALSE, clause |-> NoClause]
    ELSE
        LET columns == metadata[table_name].columns
        IN IF ~HasColumn(columns, where_clause.col) THEN [ok |-> FALSE, clause |-> NoClause]
           ELSE
               LET c == coerce_value(where_clause.val, column_type_of(columns, where_clause.col))
               IN IF ~c.ok THEN [ok |-> FALSE, clause |-> NoClause]
                  ELSE [ok |-> TRUE, clause |-> Clause(where_clause.col, c.val)]

\* ------------------------------------------------------------------ rows
HasKey(row, name) == \E i \in 1..Len(row) : row[i].name = name

\* row.get(name): None for a missing key
RowGet(row, name) ==
    IF HasKey(row, name) THEN row[CHOOSE i \in 1..Len(row) : row[i].name = name].val
    ELSE NoneV

\* row[name] = value: an existing key keeps its place, a new key goes last
RowSet(row, name, value) ==
    IF HasKey(row, name)
    THEN [i \in 1..Len(row) |-> IF row[i].name = name THEN [name |-> name, val |-> value]
                                 ELSE row[i]]
    ELSE Append(row, [name |-> name, val |-> value])

\* dict == dict: the same keys with equal values, whatever the order
RowEq(r1, r2) ==
    /\ \A i \in 1..Len(r1) : HasKey(r2, r1[i].name) /\ PyEq(r1[i].val, RowGet(r2, r1[i].name))
    /\ \A i \in 1..Len(r2) : HasKey(r1, r2[i].name)

\* list == list
RowsEq(a, b) == Len(a) = Len(b) /\ \A i \in 1..Len(a) : RowEq(a[i], b[i])

\* max((row["ID"] for row in table_data), default=0)
RECURSIVE MaxID(_)
MaxID(table_data) ==
    IF table_data = << >> THEN 0
    ELSE LET m == MaxID(Tail(table_data))
             x == RowGet(Head(table_data), ID).i
         IN IF x > m THEN x ELSE m

\* ---------------------------------------------------------------- insert
\* the loop of insert over zip(user_columns, values); [ok, record]
RECURSIVE coerce_record(_, _, _, _)
coerce_record(user_columns, values, i, record) ==
    IF i > Len(user_columns) \/ i > Len(values) THEN [ok |-> TRUE, record |-> record]
    ELSE LET c == coerce_value(values[i], user_columns[i].type)
         IN IF ~c.ok THEN [ok |-> FALSE, record |-> << >>]
            ELSE coerce_record(user_columns, values, i + 1,
                               RowSet(record, user_columns[i].name, c.val))

\* a mutation of the arity check: fewer values than columns pass
insert_arity_at_most(values, user_columns) == Len(values) <= Len(user_columns)

\* the arity check of insert
insert_arity_ok(values, user_columns) == Len(values) = Len(user_columns)

\* a mutation of the ID generation: the row count instead of the largest ID
next_id_by_count(table_data) == Len(table_data) + 1

\* the ID insert generates
next_id(table_data) == MaxID(table_data) + 1

\* a mutation of insert: the row is appended before its values are checked
insert_appends_unchecked(metadata, table_name, values, table_data) ==
    IF table_name \notin DOMAIN metadata THEN [ok |-> FALSE, data |-> table_data, id |-> 0]
    ELSE
        LET columns == metadata[table_name].columns
            user_columns == Tail(columns)
            r == coerce_record(user_columns, values, 1, << >>)
            appended == Append(table_data,
                               << [name |-> ID, val |-> IntV(next_id(table_data))] >>)
        IN IF ~insert_arity_ok(values, user_columns)
           THEN [ok |-> FALSE, data |-> table_data, id |-> 0]
           ELSE IF ~r.ok THEN [ok |-> FALSE, data |-> appended, id |-> 0]
           ELSE [ok |-> TRUE,
                 data |-> Append(table_data,
                     << [name |-> ID, val |-> IntV(next_id(table_data))] >> \o r.record),
                 id |-> next_id(table_data)]

\* insert under handle_db_errors and log_time; [ok, data, id]
insert(metadata, table_name, values, table_data) ==
    IF table_name \notin DOMAIN metadata THEN [ok |-> FALSE, data |-> table_data, id |-> 0]
    ELSE
        LET columns == metadata[table_name].columns
            user_columns == Tail(columns)
            r == coerce_record(user_columns, values, 1, << >>)
        IN IF ~insert_arity_ok(values, user_columns)
           THEN [ok |-> FALSE, data |-> table_data, id |-> 0]
           ELSE IF ~r.ok THEN [ok |-> FALSE, data |-> table_data, id |-> 0]
           ELSE [ok |-> TRUE,
                 data |-> Append(table_data,
                     << [name |-> ID, val |-> IntV(next_id(table_data))] >> \o r.record),
                 id |-> next_id(table_data)]

\* ---------------------------------------------------------------- select
\* the rows of table_data whose column equals value, in order
RECURSIVE matching_rows(_, _, _)
matching_rows(table_data, column, value) ==
    IF table_data = << >> THEN << >>
    ELSE IF PyEq(RowGet(Head(table_data), column), value)
         THEN << Head(table_data) >> \o matching_rows(Tail(table_data), column, value)
         ELSE matching_rows(Tail(table_data), column, value)

\* select under handle_db_errors and log_time; has_where = FALSE for None
select(table_data, has_where, where_clause) ==
    IF ~has_where THEN table_data
    ELSE matching_rows(table_data, where_clause.col, where_clause.val)

\* ---------------------------------------------------------------- update
\* a mutation of the column checks of update: ID may be set
update_columns_any(columns, set_column, where_column) ==
    HasColumn(columns, set_column) /\ HasColumn(columns, where_column)

\* the column checks of update: both declared, and the set column is not ID
update_columns_ok(columns, set_column, where_column) ==
    /\ HasColumn(columns, set_column) /\ HasColumn(columns, where_column)
    /\ set_column # ID

\* a mutation of the loop of update: it stops after the first matching row
RECURSIVE update_first_row(_, _, _, _, _)
update_first_row(table_data, set_column, set_value, where_column, where_value) ==
    IF table_data = << >> THEN [data |-> << >>, ids |-> << >>]
    ELSE
        LET row == Head(table_data)
            rest == update_first_row(Tail(table_data), set_column, set_value,
                                     where_column, where_value)
        IN IF PyEq(RowGet(row, where_column), where_value)
           THEN [data |-> << RowSet(row, set_column, set_value) >> \o Tail(table_data),
                 ids |-> << RowGet(row, ID).i >>]
           ELSE [data |-> << row >> \o rest.data, ids |-> rest.ids]

\* the loop of update; [data, ids]
RECURSIVE update_rows(_, _, _, _, _)
update_rows(table_data, set_column, set_value, where_column, where_value) ==
    IF table_data = << >> THEN [data |-> << >>, ids |-> << >>]
    ELSE
        LET row == Head(table_data)
            rest == update_rows(Tail(table_data), set_column, set_value,
                                where_column, where_value)
        IN IF PyEq(RowGet(row, where_column), where_value)
           THEN LET new_row == RowSet(row, set_column, set_value)
                IN [data |-> << new_row >> \o rest.data,
                    ids |-> << RowGet(new_row, ID).i >> \o rest.ids]
           ELSE [data |-> << row >> \o rest.data, ids |-> rest.ids]

\* update under handle_db_errors; [ok, data, ids]
update(metadata, table_name, table_data, set_clause, where_clause) ==
    IF table_name \notin DOMAIN metadata
    THEN [ok |-> FALSE, data |-> table_data, ids |-> << >>]
    ELSE
        LET columns == metadata[table_name].columns
            s == coerce_value(set_clause.val, column_type_of(columns, set_clause.col))
            w == coerce_value(where_clause.val, column_type_of(columns, where_clause.col))
            u == update_rows(table_data, set_clause.col, s.val, where_clause.col, w.val)
        IN IF ~update_columns_ok(columns, set_clause.col, where_clause.col)
           THEN [ok |-> FALSE, data |-> table_data, ids |-> << >>]
           ELSE IF ~s.ok \/ ~w.ok THEN [ok |-> FALSE, data |-> table_data, ids |-> << >>]
           ELSE [ok |-> TRUE, data |-> u.data, ids |-> u.ids]

\* ---------------------------------------------------------------- delete
\* a mutation of the loop of delete: it stops deleting after the first match
RECURSIVE delete_first_row(_, _, _)
delete_first_row(table_data, where_column, where_value) ==
    IF table_data = << >> THEN [data |-> << >>, ids |-> << >>]
    ELSE IF PyEq(RowGet(Head(table_data), where_column), where_value)
         THEN [data |-> Tail(table_data), ids |-> << RowGet(Head(table_data), ID).i >>]
         ELSE LET rest == delete_first_row(Tail(table_data), where_column, where_value)
              IN [data |-> << Head(table_data) >> \o rest.data, ids |-> rest.ids]

\* the loop of delete; [data, ids]: kept_rows and deleted_ids
RECURSIVE delete_rows(_, _, _)
delete_rows(table_data, where_column, where_value) ==
    IF table_data = << >> THEN [data |-> << >>, ids |-> << >>]
    ELSE
        LET row == Head(table_data)
            rest == delete_rows(Tail(table_data), where_column, where_value)
        IN IF PyEq(RowGet(row, where_column), where_value)
           THEN [data |-> rest.data, ids |-> << RowGet(row, ID).i >> \o rest.ids]
           ELSE [data |-> << row >> \o rest.data, ids |-> rest.ids]

\* delete under handle_db_errors and confirm_action; [ok, data, ids]
delete(metadata, table_name, table_data, where_clause, answer) ==
    IF ~confirmed(answer) THEN [ok |-> FALSE, data |-> table_data, ids |-> << >>]
    ELSE IF table_name \notin DOMAIN metadata
    THEN [ok |-> FALSE, data |-> table_data, ids |-> << >>]
    ELSE
        LET columns == metadata[table_name].columns
            w == coerce_value(where_clause.val, column_type_of(columns, where_clause.col))
            d == delete_rows(table_data, where_clause.col, w.val)
        IN IF ~HasColumn(columns, where_clause.col)
           THEN [ok |-> FALSE, data |-> table_data, ids |-> << >>]
           ELSE IF ~w.ok THEN [ok |-> FALSE, data |-> table_data, ids |-> << >>]
           ELSE [ok |-> TRUE, data |-> d.data, ids |-> d.ids]

\* ----------------------------------------------------------- persistence
\* load_table_data: the rows of data/<table>.json, [] when the file is missing
load_table_data(fs, table_name) == IF table_name \in DOMAIN fs THEN fs[table_name] ELSE << >>

\* save_table_data: data/<table>.json rewritten
save_table_data(fs, table_name, data) == DictSet(fs, table_name, data)

\* ------------------------------------------------------------ json.dumps
\* a str as a JSON string: quotes and backslashes escaped
RECURSIVE JsonEscape(_)
JsonEscape(t) ==
    IF t = << >> THEN << >>
    ELSE IF Head(t) \in {"\"", "\\"} THEN << "\\", Head(t) >> \o JsonEscape(Tail(t))
    ELSE << Head(t) >> \o JsonEscape(Tail(t))

JsonStr(t) == << "\"" >> \o JsonEscape(t) \o << "\"" >>

DumpsValue(v) ==
    IF v.k = "int" THEN IntStr(v.i)
    ELSE IF v.k = "bool" THEN (IF v.b THEN << "t", "r", "u", "e" >>
                               ELSE << "f", "a", "l", "s", "e" >>)
    ELSE IF v.k = "str" THEN JsonStr(v.s)
    ELSE << "n", "u", "l", "l" >>

\* sort_keys=True: the entries of a dict in the order of their keys
RECURSIVE InsertSorted(_, _)
InsertSorted(entry, sorted) ==
    IF sorted = << >> THEN << entry >>
    ELSE IF StrLess(entry.name, Head(sorted).name) THEN << entry >> \o sorted
    ELSE << Head(sorted) >> \o InsertSorted(entry, Tail(sorted))

RECURSIVE SortKeys(_)
SortKeys(row) == IF row = << >> THEN << >> ELSE InsertSorted(Head(row), SortKeys(Tail(row)))

RECURSIVE DumpsEntries(_)
DumpsEntries(entries) ==
    IF entries = << >> THEN << >>
    ELSE JsonStr(Head(entries).name) \o << ":", " " >> \o DumpsValue(Head(entries).val)
         \o (IF Len(entries) > 1 THEN << ",", " " >> ELSE << >>)
         \o DumpsEntries(Tail(entries))

DumpsRow(row) == << "{" >> \o DumpsEntries(SortKeys(row)) \o << "}" >>

RECURSIVE DumpsRows(_)
DumpsRows(rows) ==
    IF rows = << >> THEN << >>
    ELSE DumpsRow(Head(rows)) \o (IF Len(rows) > 1 THEN << ",", " " >> ELSE << >>)
         \o DumpsRows(Tail(rows))

\* dumps(table_data, sort_keys=True, ensure_ascii=False)
DumpsData(table_data) == << "[" >> \o DumpsRows(table_data) \o << "]" >>

\* dumps(where_clause, sort_keys=True, ensure_ascii=False); None is null
DumpsWhere(has_where, where_clause) ==
    IF ~has_where THEN << "n", "u", "l", "l" >>
    ELSE DumpsRow(<< [name |-> where_clause.col, val |-> where_clause.val] >>)

\* ----------------------------------------------------------------- cache
\* a mutation of the cache key: the dataset fingerprint is left out
cache_key_without_data(table_name, has_where, where_clause, table_data) ==
    << table_name, DumpsWhere(has_where, where_clause), << >> >>

\* the key run builds for a select
cache_key(table_name, has_where, where_clause, table_data) ==
    << table_name, DumpsWhere(has_where, where_clause), DumpsData(table_data) >>

\* a mutation of cache_result: a new entry replaces the ones stored before
cache_result_evicting(cache, key, value) ==
    IF key \in DOMAIN cache THEN [value |-> cache[key], cache |-> cache]
    ELSE [value |-> value, cache |-> DictSet(<< >>, key, value)]

\* cache_result of create_cacher: [value, cache]
cache_result(cache, key, value) ==
    IF key \in DOMAIN cache THEN [value |-> cache[key], cache |-> cache]
    ELSE [value |-> value, cache |-> DictSet(cache, key, value)]

\* ---------------------------------------------------------------- inputs
T1 == << "t" >>
TableNames == {T1}
T2 == << "u" >>
SchemaNames == {T1, T2}

ColA == << "a" >>
ColB == << "b" >>
ColC == << "c" >>

TokAInt == << "a", ":", "i", "n", "t" >>
TokAStr == << "a", ":", "s", "t", "r" >>
TokBStr == << "b", ":", "s", "t", "r" >>
TokCBool == << "c", ":", "b", "o", "o", "l" >>
TokIdInt == << "I", "d", ":", "i", "n", "t" >>

\* the column tokens of the create_table commands: none, two schemas, a
\* duplicate name, the reserved name
ColumnLists ==
    { << >>, << TokAInt, TokBStr >>, << TokCBool >>, << TokAInt, TokAStr >>, << TokIdInt >> }

\* scalars as parse_scalar hands them on: 1, "2", "x", true
I1 == IntV(1)
S2 == StrV(<< "2" >>)
SX == StrV(<< "x" >>)
BT == BoolV(TRUE)

\* the value lists of the insert commands (split_csv_values yields at least one)
ValueLists ==
    { << I1, S2 >>, << S2, S2 >>, << BT, S2 >>, << SX, S2 >>, << I1, I1 >>, << I1 >>,
      << BT >>, << I1, S2, S2 >> }

\* the conditions of the set part of the update commands
SetClauses == {Clause(ID, I1), Clause(ID, S2), Clause(ColA, I1), Clause(ColA, S2), Clause(ColA, BT),
               Clause(ColB, S2)}

\* the conditions of the where part of the select, update and delete commands
WhereClauses == {Clause(ID, I1), Clause(ID, S2), Clause(ColA, I1), Clause(ColA, S2),
                 Clause(ColA, BT), Clause(ColC, BT)}

\* the answers typed at the confirmation prompt
Answers == {<< "Y" >>, << "n" >>}

\* ----------------------------------------------------------------- state
VARIABLES
    db_meta,        \* db_meta.json: table name -> [columns]
    data_files,     \* data/<table>.json: table name -> rows
    select_cache,   \* the dict of create_cacher: key -> rows
    last,           \* history: the last command and what it returned
    issued,         \* history: table name -> IDs insert returned since its creation
    dropped         \* history: names dropped with rows in them, nothing inserted since

vars == << db_meta, data_files, select_cache, last, issued, dropped >>

NoLast ==
    [op |-> "none", table |-> << >>, ok |-> FALSE, reborn |-> FALSE,
     columns |-> << >>, values |-> << >>, set |-> NoClause, where |-> NoClause,
     has_where |-> FALSE, answer |-> << >>, earlier |-> {}, hit |-> FALSE,
     pre |-> << >>, out |-> << >>, ids |-> << >>, id |-> 0, rows |-> << >>,
     meta_pre |-> << >>, value |-> NoneV, expected_type |-> << >>, result |-> NoneV,
     text |-> << >>, tokens |-> << >>, fragments |-> << >>,
     loop |-> "reading"]

Init ==
    /\ db_meta = << >>
    /\ data_files = << >>
    /\ select_cache = << >>
    /\ last = NoLast
    /\ issued = [t \in TableNames |-> {}]
    /\ dropped = {}

\* ------------------------------------------------------------- run: commands
\* create_table <name> <column> ...
run_create_table(table_name, columns) ==
    LET updated_metadata == create_table(db_meta, table_name, columns)
    IN /\ db_meta' = IF Len(columns) >= 1 /\ updated_metadata.ok
                     THEN updated_metadata.metadata ELSE db_meta
       /\ UNCHANGED << data_files, select_cache >>

\* a mutation of the drop_table command: the data file is emptied even when
\* drop_table returned None
run_drop_table_always_clears(table_name, answer) ==
    LET updated_metadata == drop_table(db_meta, table_name, answer)
    IN /\ db_meta' = IF updated_metadata.ok THEN updated_metadata.metadata ELSE db_meta
       /\ data_files' = save_table_data(data_files, table_name, << >>)
       /\ UNCHANGED select_cache

\* a mutation of the drop_table command: the data file is not rewritten
run_drop_table_keeps_rows(table_name, answer) ==
    LET updated_metadata == drop_table(db_meta, table_name, answer)
    IN /\ db_meta' = IF updated_metadata.ok THEN updated_metadata.metadata ELSE db_meta
       /\ UNCHANGED << data_files, select_cache >>

\* drop_table <name>
run_drop_table(table_name, answer) ==
    LET updated_metadata == drop_table(db_meta, table_name, answer)
    IN /\ db_meta' = IF updated_metadata.ok THEN updated_metadata.metadata ELSE db_meta
       /\ data_files' = IF updated_metadata.ok
                        THEN save_table_data(data_files, table_name, << >>)
                        ELSE data_files
       /\ UNCHANGED select_cache

\* insert into <name> values (...)
run_insert(table_name, parsed_values) ==
    LET table_data == load_table_data(data_files, table_name)
        insert_result == insert(db_meta, table_name, parsed_values, table_data)
    IN /\ insert_result.ok => Len(table_data) < MaxRows /\ insert_result.id <= MaxId
       /\ data_files' = IF insert_result.ok
                        THEN save_table_data(data_files, table_name, insert_result.data)
                        ELSE data_files
       /\ UNCHANGED << db_meta, select_cache >>

\* what a select command reads: [ok, where, key, rows, cache]
select_outcome(table_name, has_where, where_clause) ==
    LET normalized == IF has_where
                      THEN normalize_where_clause(db_meta, table_name, where_clause)
                      ELSE [ok |-> TRUE, clause |-> NoClause]
        table_data == load_table_data(data_files, table_name)
        key == cache_key(table_name, has_where, normalized.clause, table_data)
        cached == cache_result(select_cache, key,
                               select(table_data, has_where, normalized.clause))
    IN IF table_name \notin DOMAIN db_meta \/ ~normalized.ok
       THEN [ok |-> FALSE, where |-> NoClause, key |-> << >>, rows |-> << >>,
             cache |-> select_cache]
       ELSE [ok |-> TRUE, where |-> normalized.clause, key |-> key,
             rows |-> cached.value, cache |-> cached.cache]

\* select from <name> [where <column> = <value>]
run_select(table_name, has_where, where_clause) ==
    LET outcome == select_outcome(table_name, has_where, where_clause)
    IN /\ Cardinality(DOMAIN outcome.cache) <= MaxCache
       /\ select_cache' = outcome.cache
       /\ UNCHANGED << db_meta, data_files >>

\* update <name> set <column> = <value> where <column> = <value>
run_update(table_name, set_clause, where_clause) ==
    LET table_data == load_table_data(data_files, table_name)
        update_result == update(db_meta, table_name, table_data, set_clause, where_clause)
    IN /\ data_files' = IF update_result.ok /\ update_result.ids # << >>
                        THEN save_table_data(data_files, table_name, update_result.data)
                        ELSE data_files
       /\ UNCHANGED << db_meta, select_cache >>

\* delete from <name> where <column> = <value>
run_delete(table_name, where_clause, answer) ==
    LET table_data == load_table_data(data_files, table_name)
        delete_result == delete(db_meta, table_name, table_data, where_clause, answer)
    IN /\ data_files' = IF delete_result.ok /\ delete_result.ids # << >>
                        THEN save_table_data(data_files, table_name, delete_result.data)
                        ELSE data_files
       /\ UNCHANGED << db_meta, select_cache >>

\* the value list of an insert command: parse_scalar of every fragment of
\* split_csv_values; [ok, values]
parse_values(values_text) ==
    LET fragments == split_csv_values(Strip(values_text))
    IN IF ~fragments.ok
          \/ \E f \in 1..Len(fragments.values) : ~parse_scalar(fragments.values[f]).ok
       THEN [ok |-> FALSE, values |-> << >>]
       ELSE [ok |-> TRUE,
             values |-> [f \in 1..Len(fragments.values) |->
                            parse_scalar(fragments.values[f]).val]]

\* info <name>
run_info(table_name) ==
    LET table_data == load_table_data(data_files, table_name)
        info == get_table_info(db_meta, table_name, table_data)
    IN /\ info.ok => info.rows_count = Len(table_data)
       /\ UNCHANGED << db_meta, data_files, select_cache >>

\* list_tables
run_list_tables ==
    /\ list_tables(db_meta) = DOMAIN db_meta
    /\ UNCHANGED << db_meta, data_files, select_cache >>

\* a command the loop rejects before any core call
run_rejected == UNCHANGED << db_meta, data_files, select_cache >>

\* ---------------------------------------------------- run: command lines
KwExit == << "e", "x", "i", "t" >>
KwInsertInto == << "i", "n", "s", "e", "r", "t", " ", "i", "n", "t", "o", " " >>
KwSelectFrom == << "s", "e", "l", "e", "c", "t", " ", "f", "r", "o", "m", " " >>
KwUpdate == << "u", "p", "d", "a", "t", "e", " " >>
KwDeleteFrom == << "d", "e", "l", "e", "t", "e", " ", "f", "r", "o", "m", " " >>
KwSet == << " ", "s", "e", "t", " " >>
KwWhere == << " ", "w", "h", "e", "r", "e", " " >>
KwValues == << " ", "v", "a", "l", "u", "e", "s", " " >>

\* the branch of the loop a command line is handled by
dispatch(user_input) ==
    IF user_input = KwExit THEN "exit"
    ELSE IF StartsWith(user_input, KwInsertInto) THEN "insert"
    ELSE IF StartsWith(user_input, KwSelectFrom) THEN "select"
    ELSE IF StartsWith(user_input, KwUpdate) THEN "update"
    ELSE IF StartsWith(user_input, KwDeleteFrom) THEN "delete"
    ELSE "unknown"

NoCommand ==
    [fatal |-> FALSE, ok |-> FALSE, table |-> << >>, values |-> << >>,
     has_where |-> FALSE, set |-> NoClause, where |-> NoClause]

\* parse_condition(part.split()) of the select, update and delete branches
condition_of(part) ==
    CHOOSE parsed \in {parse_condition(tokens) : tokens \in {Split(part)}} : TRUE

\* the insert branch up to the core call
insert_command(user_input) ==
    LET halves == SplitOnce(user_input, KwValues)
        head_parts == Split(halves[1])
        values_part == Strip(halves[2])
        parsed_values == parse_values(SubSeq(values_part, 2, Len(values_part) - 1))
    IN IF ~Contains(user_input, KwValues) THEN NoCommand
       ELSE IF Len(head_parts) # 3 THEN NoCommand
       ELSE IF ~(StartsWith(values_part, << "(" >>) /\ EndsWith(values_part, << ")" >>))
            THEN NoCommand
       ELSE IF ~parsed_values.ok THEN NoCommand
       ELSE [NoCommand EXCEPT !.ok = TRUE, !.table = head_parts[3],
                              !.values = parsed_values.values]

\* the select branch up to the cache lookup
select_command(user_input, metadata) ==
    LET select_parts == Split(user_input)
        where_part == SplitOnce(user_input, KwWhere)[2]
        where_clause == condition_of(where_part)
    IN IF Len(select_parts) < 3 THEN NoCommand
       ELSE IF select_parts[3] \notin DOMAIN metadata THEN NoCommand
       ELSE IF ~Contains(user_input, KwWhere)
            THEN [NoCommand EXCEPT !.ok = TRUE, !.table = select_parts[3]]
       ELSE IF ~where_clause.ok THEN NoCommand
       ELSE [NoCommand EXCEPT !.ok = TRUE, !.table = select_parts[3],
                              !.has_where = TRUE, !.where = where_clause.clause]

\* the update branch up to the core call; fatal when the two-name unpacking
\* of set_tail.split(" where ", 1) gets one part only
update_command(user_input) ==
    LET halves == SplitOnce(user_input, KwSet)
        table_parts == Split(halves[1])
        tail == SplitOnce(halves[2], KwWhere)
        set_clause == condition_of(tail[1])
        where_clause == condition_of(tail[2])
    IN IF ~Contains(user_input, KwSet) \/ ~Contains(user_input, KwWhere) THEN NoCommand
       ELSE IF Len(table_parts) # 2 THEN NoCommand
       ELSE IF Len(tail) # 2 THEN [NoCommand EXCEPT !.fatal = TRUE]
       ELSE IF ~set_clause.ok \/ ~where_clause.ok THEN NoCommand
       ELSE [NoCommand EXCEPT !.ok = TRUE, !.table = table_parts[2],
                              !.set = set_clause.clause, !.where = where_clause.clause]

\* the delete branch up to the core call
delete_command(user_input) ==
    LET halves == SplitOnce(user_input, KwWhere)
        delete_parts == Split(halves[1])
        where_clause == condition_of(halves[2])
    IN IF ~Contains(user_input, KwWhere) THEN NoCommand
       ELSE IF Len(delete_parts) # 3 THEN NoCommand
       ELSE IF ~where_clause.ok THEN NoCommand
       ELSE [NoCommand EXCEPT !.ok = TRUE, !.table = delete_parts[3],
                              !.where = where_clause.clause]

\* --------------------------------------------------------------- history
\* what the last command was and what its core call returned
obs_create_table(table_name, columns) ==
    /\ last' = [NoLast EXCEPT !.op = "create_table", !.table = table_name,
                   !.columns = columns, !.reborn = table_name \in dropped,
                   !.meta_pre = db_meta,
                   !.ok = Len(columns) >= 1 /\ create_table(db_meta, table_name, columns).ok]
    /\ UNCHANGED << issued, dropped >>

obs_drop_table(table_name, answer) ==
    LET table_data == load_table_data(data_files, table_name)
        ok == drop_table(db_meta, table_name, answer).ok
    IN /\ last' = [NoLast EXCEPT !.op = "drop_table", !.table = table_name,
                      !.answer = answer, !.pre = table_data, !.ok = ok]
       /\ issued' = IF ok THEN [issued EXCEPT ![table_name] = {}] ELSE issued
       /\ dropped' = IF ok /\ table_data # << >> THEN dropped \cup {table_name} ELSE dropped

obs_insert(table_name, parsed_values) ==
    LET table_data == load_table_data(data_files, table_name)
        insert_result == insert(db_meta, table_name, parsed_values, table_data)
    IN /\ last' = [NoLast EXCEPT !.op = "insert", !.table = table_name,
                      !.values = parsed_values, !.pre = table_data,
                      !.reborn = table_name \in dropped,
                      !.earlier = issued[table_name],
                      !.ok = insert_result.ok, !.out = insert_result.data,
                      !.id = insert_result.id]
       /\ issued' = IF insert_result.ok
                    THEN [issued EXCEPT ![table_name] = @ \cup {insert_result.id}]
                    ELSE issued
       /\ dropped' = IF insert_result.ok THEN dropped \ {table_name} ELSE dropped

obs_update(table_name, set_clause, where_clause) ==
    LET table_data == load_table_data(data_files, table_name)
        update_result == update(db_meta, table_name, table_data, set_clause, where_clause)
    IN /\ last' = [NoLast EXCEPT !.op = "update", !.table = table_name,
                      !.set = set_clause, !.where = where_clause, !.pre = table_data,
                      !.ok = update_result.ok, !.out = update_result.data,
                      !.ids = update_result.ids]
       /\ UNCHANGED << issued, dropped >>

obs_delete(table_name, where_clause, answer) ==
    LET table_data == load_table_data(data_files, table_name)
        delete_result == delete(db_meta, table_name, table_data, where_clause, answer)
    IN /\ last' = [NoLast EXCEPT !.op = "delete", !.table = table_name,
                      !.where = where_clause, !.answer = answer, !.pre = table_data,
                      !.ok = delete_result.ok, !.out = delete_result.data,
                      !.ids = delete_result.ids]
       /\ UNCHANGED << issued, dropped >>

obs_select(table_name, has_where, where_clause) ==
    LET outcome == select_outcome(table_name, has_where, where_clause)
    IN /\ last' = [NoLast EXCEPT !.op = "select", !.table = table_name,
                      !.has_where = has_where, !.where = outcome.where,
                      !.ok = outcome.ok, !.rows = outcome.rows,
                      !.hit = outcome.ok /\ outcome.key \in DOMAIN select_cache]
       /\ UNCHANGED << issued, dropped >>

obs_info(table_name) ==
    /\ last' = [NoLast EXCEPT !.op = "info", !.table = table_name,
                   !.pre = load_table_data(data_files, table_name),
                   !.ok = get_table_info(db_meta, table_name,
                                         load_table_data(data_files, table_name)).ok]
    /\ UNCHANGED << issued, dropped >>

obs_list_tables ==
    /\ last' = [NoLast EXCEPT !.op = "list_tables", !.ok = TRUE]
    /\ UNCHANGED << issued, dropped >>

obs_rejected(table_name, text) ==
    /\ last' = [NoLast EXCEPT !.op = "rejected", !.table = table_name, !.text = text]
    /\ UNCHANGED << issued, dropped >>

\* ---------------------------------------------------------- specification
\* The command loop under the commands that change persisted state. A select
\* command changes select_cache alone, which only a select reads: SpecCache
\* has it.
CreateTable == \E t \in TableNames, columns \in ColumnLists :
    run_create_table(t, columns) /\ obs_create_table(t, columns)

DropTable == \E t \in TableNames, answer \in Answers :
    run_drop_table(t, answer) /\ obs_drop_table(t, answer)

Insert == \E t \in TableNames, parsed_values \in ValueLists :
    run_insert(t, parsed_values) /\ obs_insert(t, parsed_values)

Update == \E t \in TableNames, set_clause \in SetClauses, where_clause \in WhereClauses :
    run_update(t, set_clause, where_clause) /\ obs_update(t, set_clause, where_clause)

Delete == \E t \in TableNames, where_clause \in WhereClauses, answer \in Answers :
    run_delete(t, where_clause, answer) /\ obs_delete(t, where_clause, answer)

Next == CreateTable \/ DropTable \/ Insert \/ Update \/ Delete

Spec == Init /\ [][Next]_vars

\* The command loop with the select command and its cache, on one table of
\* one schema; only what a select returned is recorded.
quiet == last' = NoLast /\ UNCHANGED << issued, dropped >>

\* the table stays within the bounds of the cached runs
within_cache_bounds ==
    /\ Len(load_table_data(data_files, T1)) <= CacheRows
    /\ MaxID(load_table_data(data_files, T1)) <= CacheIds

CacheCreateTable == run_create_table(T1, << TokAInt, TokBStr >>) /\ quiet

CacheDropTable == run_drop_table(T1, << "Y" >>) /\ quiet

CacheInsert == \E parsed_values \in {<< I1, S2 >>, << S2, S2 >>} :
    run_insert(T1, parsed_values) /\ within_cache_bounds' /\ quiet

CacheUpdate == \E set_value \in {I1, S2}, where_value \in {I1, S2} :
    run_update(T1, Clause(ColA, set_value), Clause(ColA, where_value)) /\ quiet

CacheDelete == \E where_clause \in {Clause(ID, I1), Clause(ColA, S2)} :
    run_delete(T1, where_clause, << "Y" >>) /\ quiet

CacheSelect == \E has_where \in BOOLEAN :
    LET where_clause == IF has_where THEN Clause(ColA, I1) ELSE NoClause
    IN run_select(T1, has_where, where_clause) /\ obs_select(T1, has_where, where_clause)

NextCache ==
    \/ CacheCreateTable \/ CacheDropTable \/ CacheInsert
    \/ CacheUpdate \/ CacheDelete \/ CacheSelect

SpecCache == Init /\ [][NextCache]_vars

\* The command loop under every command, on the table t and beside it a table
\* u that was created and filled before and is only read or dropped.
FrameValueTexts ==
    { << " ", "1", " " >>, << "x" >>, << "t", "r", "u", "e" >>, << "\"", "1" >> }

I2 == IntV(2)

\* answers typed at the confirmation prompt: yes in two spellings, and two
\* that are not yes
FrameAnswers == { << "Y" >>, << " ", "y", " " >>, << "n" >>, << "y", "e", "s" >> }

InitFrame ==
    /\ db_meta = create_table(<< >>, T2, << TokAInt >>).metadata
    /\ data_files = save_table_data(<< >>, T2, insert(db_meta, T2, << I1 >>, << >>).data)
    /\ select_cache = << >>
    /\ last = NoLast
    /\ issued = [t \in SchemaNames |-> {}]
    /\ dropped = {}

FrameCreateTable == \E columns \in {<< TokAInt >>, << TokIdInt >>} :
    run_create_table(T1, columns) /\ obs_create_table(T1, columns)

FrameDropTable == \E t \in SchemaNames, answer \in FrameAnswers :
    run_drop_table(t, answer) /\ obs_drop_table(t, answer)

FrameInsert == \E text \in FrameValueTexts :
    LET parsed == parse_values(text)
    IN IF parsed.ok
       THEN run_insert(T1, parsed.values) /\ within_cache_bounds'
            /\ obs_insert(T1, parsed.values)
       ELSE run_rejected /\ obs_rejected(T1, text)

FrameUpdate == \E set_clause \in {Clause(ColA, I2), Clause(ID, I1)} :
    /\ run_update(T1, set_clause, Clause(ColA, I1))
    /\ obs_update(T1, set_clause, Clause(ColA, I1))

FrameDelete == \E answer \in FrameAnswers :
    run_delete(T1, Clause(ID, I1), answer) /\ obs_delete(T1, Clause(ID, I1), answer)

FrameSelect == \E t \in SchemaNames :
    /\ run_select(t, FALSE, NoClause) /\ obs_select(t, FALSE, NoClause)
    /\ Cardinality(DOMAIN select_cache') <= FrameCache

FrameInfo == \E t \in SchemaNames : run_info(t) /\ obs_info(t)

FrameListTables == run_list_tables /\ obs_list_tables

NextFrame ==
    \/ FrameCreateTable \/ FrameDropTable \/ FrameInsert \/ FrameUpdate
    \/ FrameDelete \/ FrameSelect \/ FrameInfo \/ FrameListTables

SpecFrame == InitFrame /\ [][NextFrame]_vars

\* The command loop under create_table and drop_table alone, on two table
\* names and column tokens of every shape _parse_columns tells apart.
TokLowerId == << "i", "d", ":", "s", "t", "r" >>
TokUpperId == << "I", "D", ":", "i", "n", "t" >>
TokNoColon == << "a" >>
TokNoName == << ":", "i", "n", "t" >>
TokBlankName == << " ", ":", "i", "n", "t" >>
TokBadType == << "a", ":", "I", "n", "t" >>
TokNoType == << "a", ":" >>
TokSpaced == << " ", "a", " ", ":", " ", "i", "n", "t", " " >>
TokUpperA == << "A", ":", "s", "t", "r" >>

SchemaColumnLists ==
    { << >>, << TokAInt >>, << TokAInt, TokBStr >>, << TokBStr, TokAInt >>,
      << TokCBool, TokBStr, TokAInt >>, << TokSpaced >>, << TokUpperA, TokAInt >>,
      << TokIdInt >>, << TokLowerId >>, << TokAInt, TokUpperId >>,
      << TokNoColon >>, << TokBStr, TokNoColon >>, << TokNoName >>, << TokBlankName >>,
      << TokBadType >>, << TokBStr, TokNoType >>, << TokAInt, TokAStr >>,
      << TokAInt, TokSpaced >> }

InitSchema ==
    /\ db_meta = << >>
    /\ data_files = << >>
    /\ select_cache = << >>
    /\ last = NoLast
    /\ issued = [t \in SchemaNames |-> {}]
    /\ dropped = {}

SchemaCreateTable == \E t \in SchemaNames, columns \in SchemaColumnLists :
    run_create_table(t, columns) /\ obs_create_table(t, columns)

SchemaDropTable == \E t \in SchemaNames, answer \in Answers :
    run_drop_table(t, answer) /\ obs_drop_table(t, answer)

NextSchema == SchemaCreateTable \/ SchemaDropTable

SpecSchema == InitSchema /\ [][NextSchema]_vars

\* _coerce_value on its own: a value of any kind and a target type are drawn,
\* then the function is applied once.
TOther == << "f", "l", "o", "a", "t" >>
CoerceTypes == {TInt, TStr, TBool, TOther}

CoerceAlphabet == {"0", "1", "-", "_", " ", "t"}

RECURSIVE TextsUpTo(_)
TextsUpTo(n) ==
    IF n = 0 THEN {<< >>}
    ELSE LET shorter == TextsUpTo(n - 1)
         IN shorter \cup {Append(t, c) : t \in shorter, c \in CoerceAlphabet}

CoerceTexts ==
    TextsUpTo(MaxText)
    \cup { << "t", "r", "u", "e" >>, << "T", "R", "U", "E" >>, << "T", "r", "u", "E" >>,
           << "f", "a", "l", "s", "e" >>, << "F", "A", "L", "S", "E" >>,
           << "F", "a", "l", "s", "e" >>, << "t", "r", "u" >>, << "y" >>,
           << "+", "1", "5" >>, << "-", "1", "0", "5" >>, << "1", "x" >> }

CoerceValues ==
    {IntV(i) : i \in {-1, 0, 1, 5}} \cup {BoolV(b) : b \in BOOLEAN}
    \cup {StrV(t) : t \in CoerceTexts}

InitCoerce ==
    /\ db_meta = << >>
    /\ data_files = << >>
    /\ select_cache = << >>
    /\ \E value \in CoerceValues, expected_type \in CoerceTypes :
           last = [NoLast EXCEPT !.op = "value", !.value = value,
                                 !.expected_type = expected_type]
    /\ issued = [t \in TableNames |-> {}]
    /\ dropped = {}

Coerce ==
    /\ last.op = "value"
    /\ LET coerced == coerce_value(last.value, last.expected_type)
       IN last' = [last EXCEPT !.op = "coerce_value", !.ok = coerced.ok,
                               !.result = coerced.val]
    /\ UNCHANGED << db_meta, data_files, select_cache, issued, dropped >>

NextCoerce == Coerce

SpecCoerce == InitCoerce /\ [][NextCoerce]_vars

\* select on its own: a table (ID, a:int, c:bool) with rows of its schema and a
\* condition are drawn, then the select command runs once.
SelectColumns == << TokAInt, TokCBool >>

RECURSIVE SelectTables(_)
SelectTables(n) ==
    IF n = 0 THEN {<< >>}
    ELSE LET shorter == SelectTables(n - 1)
         IN shorter \cup
            { Append(rows, << [name |-> ID, val |-> IntV(Len(rows) + 1)],
                              [name |-> ColA, val |-> IntV(a)],
                              [name |-> ColC, val |-> BoolV(c)] >>) :
                  rows \in {r \in shorter : Len(r) = n - 1}, a \in {0, 1}, c \in BOOLEAN }

SelectConditions ==
    { Clause(col, val) :
          col \in {ID, ColA, ColB, ColC},
          val \in {IntV(0), IntV(1), BoolV(TRUE), BoolV(FALSE),
                   StrV(<< "1" >>), StrV(<< "T", "r", "u", "e" >>), StrV(<< "x" >>)} }

InitSelect ==
    /\ db_meta = create_table(<< >>, T1, SelectColumns).metadata
    /\ \E table_data \in SelectTables(MaxRows) :
           data_files = save_table_data(<< >>, T1, table_data)
    /\ select_cache = << >>
    /\ \/ last = [NoLast EXCEPT !.op = "condition", !.table = T1]
       \/ \E where_clause \in SelectConditions :
              last = [NoLast EXCEPT !.op = "condition", !.table = T1,
                                    !.has_where = TRUE, !.where = where_clause]
    /\ issued = [t \in TableNames |-> {}]
    /\ dropped = {}

SelectRows ==
    /\ last.op = "condition"
    /\ run_select(last.table, last.has_where, last.where)
    /\ LET outcome == select_outcome(last.table, last.has_where, last.where)
       IN last' = [last EXCEPT !.op = "select", !.ok = outcome.ok,
                               !.rows = outcome.rows, !.result = outcome.where.val]
    /\ UNCHANGED << issued, dropped >>

NextSelect == SelectRows

SpecSelect == InitSelect /\ [][NextSelect]_vars

\* The parser on its own: a value list text, a condition text or a token list
\* is drawn, then one parser entry point is applied as the command loop does.
CsvAlphabet == {"1", ",", "\"", " "}
InnerAlphabet == {"x", " ", ","}
ConditionTokens == { << "a" >>, << "=" >>, << "1" >>, << "\"", "x" >>, << "y", "\"" >> }

RECURSIVE SeqsUpTo(_, _)
SeqsUpTo(alphabet, n) ==
    IF n = 0 THEN {<< >>}
    ELSE LET shorter == SeqsUpTo(alphabet, n - 1)
         IN shorter \cup {Append(t, c) : t \in shorter, c \in alphabet}

\* the condition b = "<inner>" as typed after where, and the literal "<inner>"
QuotedLiteral(inner) == << "\"" >> \o inner \o << "\"" >>
ConditionText(inner) == << "b", " ", "=", " " >> \o QuotedLiteral(inner)

ParserTexts ==
    SeqsUpTo(CsvAlphabet, MaxChars)
    \cup {ConditionText(inner) : inner \in SeqsUpTo(InnerAlphabet, MaxInner)}

InitParser ==
    /\ db_meta = << >>
    /\ data_files = << >>
    /\ select_cache = << >>
    /\ \/ \E text \in ParserTexts : last = [NoLast EXCEPT !.op = "text", !.text = text]
       \/ \E tokens \in SeqsUpTo(ConditionTokens, MaxTokens) :
              last = [NoLast EXCEPT !.op = "tokens", !.tokens = tokens]
    /\ issued = [t \in TableNames |-> {}]
    /\ dropped = {}

\* split_csv_values on the value list text of an insert command
SplitCsvValues ==
    /\ last.op = "text"
    /\ LET split == split_csv_values(last.text)
       IN last' = [last EXCEPT !.op = "split_csv_values", !.ok = split.ok,
                               !.fragments = split.values]
    /\ UNCHANGED << db_meta, data_files, select_cache, issued, dropped >>

\* parse_condition(where_part.split()) of a select, update or delete command
ParseWhere ==
    /\ last.op = "text"
    /\ LET parsed == parse_condition(Split(last.text))
       IN last' = [last EXCEPT !.op = "where", !.tokens = Split(last.text),
                               !.ok = parsed.ok, !.where = parsed.clause]
    /\ UNCHANGED << db_meta, data_files, select_cache, issued, dropped >>

\* parse_condition on a token list
ParseCondition ==
    /\ last.op = "tokens"
    /\ LET parsed == parse_condition(last.tokens)
       IN last' = [last EXCEPT !.op = "parse_condition", !.ok = parsed.ok,
                               !.where = parsed.clause]
    /\ UNCHANGED << db_meta, data_files, select_cache, issued, dropped >>

NextParser == SplitCsvValues \/ ParseWhere \/ ParseCondition

SpecParser == InitParser /\ [][NextParser]_vars

\* The command loop on command lines: a line of a first word and up to
\* MaxWords further words is typed at the prompt where the table t (ID, a:int)
\* holds one row, and the loop handles it.
FirstWords == { << "u", "p", "d", "a", "t", "e" >>, << "d", "e", "l", "e", "t", "e" >>, << "i", "n", "s", "e", "r", "t" >>, << "s", "e", "l", "e", "c", "t" >>, << "e", "x", "i", "t" >> }
LoopWords == { << "s", "e", "t" >>, << "w", "h", "e", "r", "e" >>, << "v", "a", "l", "u", "e", "s" >>, << "f", "r", "o", "m" >>, << "i", "n", "t", "o" >>, << "t" >> }

FullLines ==
    { << "i", "n", "s", "e", "r", "t", " ", "i", "n", "t", "o", " ", "t", " ", "v", "a", "l", "u", "e", "s", " ", "(", "2", ")" >>,
      << "i", "n", "s", "e", "r", "t", " ", "i", "n", "t", "o", " ", "t", " ", "v", "a", "l", "u", "e", "s", " ", "(", "x", ")" >>,
      << "s", "e", "l", "e", "c", "t", " ", "f", "r", "o", "m", " ", "t", " ", "w", "h", "e", "r", "e", " ", "a", " ", "=", " ", "1" >>,
      << "u", "p", "d", "a", "t", "e", " ", "t", " ", "s", "e", "t", " ", "a", " ", "=", " ", "2", " ", "w", "h", "e", "r", "e", " ", "a", " ", "=", " ", "1" >>,
      << "u", "p", "d", "a", "t", "e", " ", "t", " ", "w", "h", "e", "r", "e", " ", "a", " ", "=", " ", "1", " ", "s", "e", "t", " ", "a", " ", "=", " ", "2" >>,
      << "d", "e", "l", "e", "t", "e", " ", "f", "r", "o", "m", " ", "t", " ", "w", "h", "e", "r", "e", " ", "a", " ", "=", " ", "1" >>,
      << "u", "p", "d", "a", "t", "e", " ", "t", " ", "s", "e", "t", " ", "I", "D", " ", "=", " ", "2", " ", "w", "h", "e", "r", "e", " ", "a", " ", "=", " ", "1" >> }

LoopLines ==
    {Join(<< " " >>, << first >> \o rest) :
         first \in FirstWords, rest \in SeqsUpTo(LoopWords, MaxWords)}
    \cup FullLines

InitLoop ==
    /\ db_meta = create_table(<< >>, T1, << TokAInt >>).metadata
    /\ data_files = save_table_data(<< >>, T1, insert(db_meta, T1, << I1 >>, << >>).data)
    /\ select_cache = << >>
    /\ \E line \in LoopLines : last = [NoLast EXCEPT !.op = "line", !.text = Strip(line)]
    /\ issued = [t \in TableNames |-> {}]
    /\ dropped = {}

unchanged_files == UNCHANGED << db_meta, data_files, select_cache >>

LoopExit ==
    /\ last.op = "line" /\ dispatch(last.text) = "exit"
    /\ last' = [last EXCEPT !.op = "exit", !.ok = TRUE, !.loop = "exited"]
    /\ unchanged_files
    /\ UNCHANGED << issued, dropped >>

LoopUnknown ==
    /\ last.op = "line" /\ dispatch(last.text) = "unknown"
    /\ last' = [last EXCEPT !.op = "unknown"]
    /\ unchanged_files
    /\ UNCHANGED << issued, dropped >>

LoopInsert ==
    /\ last.op = "line" /\ dispatch(last.text) = "insert"
    /\ \E command \in {insert_command(last.text)} :
          IF ~command.ok
          THEN unchanged_files /\ last' = [last EXCEPT !.op = "insert"]
          ELSE /\ run_insert(command.table, command.values)
               /\ last' = [last EXCEPT !.op = "insert", !.table = command.table,
                              !.ok = insert(db_meta, command.table, command.values,
                                            load_table_data(data_files, command.table)).ok]
    /\ UNCHANGED << issued, dropped >>

LoopSelect ==
    /\ last.op = "line" /\ dispatch(last.text) = "select"
    /\ \E command \in {select_command(last.text, db_meta)} :
          IF ~command.ok
          THEN unchanged_files /\ last' = [last EXCEPT !.op = "select"]
          ELSE /\ run_select(command.table, command.has_where, command.where)
               /\ last' = [last EXCEPT !.op = "select", !.table = command.table,
                              !.ok = select_outcome(command.table, command.has_where,
                                                    command.where).ok]
    /\ UNCHANGED << issued, dropped >>

LoopUpdate ==
    /\ last.op = "line" /\ dispatch(last.text) = "update"
    /\ \E command \in {update_command(last.text)} :
          IF command.fatal
          THEN unchanged_files /\ last' = [last EXCEPT !.op = "update", !.loop = "crashed"]
          ELSE IF ~command.ok
          THEN unchanged_files /\ last' = [last EXCEPT !.op = "update"]
          ELSE /\ run_update(command.table, command.set, command.where)
               /\ last' = [last EXCEPT !.op = "update", !.table = command.table,
                              !.ok = update(db_meta, command.table,
                                            load_table_data(data_files, command.table),
                                            command.set, command.where).ok]
    /\ UNCHANGED << issued, dropped >>

LoopDelete ==
    /\ last.op = "line" /\ dispatch(last.text) = "delete"
    /\ \E command \in {delete_command(last.text)} :
          IF ~command.ok
          THEN unchanged_files /\ last' = [last EXCEPT !.op = "delete"]
          ELSE \E answer \in Answers :
                   /\ run_delete(command.table, command.where, answer)
                   /\ last' = [last EXCEPT !.op = "delete", !.table = command.table,
                                  !.answer = answer,
                                  !.ok = delete(db_meta, command.table,
                                                load_table_data(data_files, command.table),
                                                command.where, answer).ok]
    /\ UNCHANGED << issued, dropped >>

NextLoop ==
    \/ LoopExit \/ LoopUnknown \/ LoopInsert \/ LoopSelect \/ LoopUpdate \/ LoopDelete

SpecLoop == InitLoop /\ [][NextLoop]_vars

\* ---------------------------------------------------------------- claims
\* the rows persisted for the table of the last command
LastData == load_table_data(data_files, last.table)

\* the IDs of rows, in order
IdsOf(rows) == [i \in 1..Len(rows) |-> RowGet(rows[i], ID)]

\* the kind of value a column type declares
KindOf(type) == IF type = TInt THEN "int" ELSE IF type = TStr THEN "str" ELSE "bool"

\* C1: the ID an insert returns was never returned by an earlier insert on the
\* same table, also when the row that held it has been deleted since.
C1_IdNeverReused ==
    (last.op = "insert" /\ last.ok) => last.id \notin last.earlier

\* C2: the rows a select command gets through the cache equal the rows an
\* uncached select computes from the table data persisted at that moment;
\* after a mutation no stale rows come back.
C2_CachedSelectIsFresh ==
    (last.op = "select" /\ last.ok) =>
        RowsEq(last.rows, select(LastData, last.has_where, last.where))

\* a cache hit on data that was changed and changed back, while the rows
\* cached for the changed data, which differ, stay in the cache
C2_Witness ==
    /\ last.op = "select" /\ last.ok /\ last.hit
    /\ \E key \in DOMAIN select_cache :
           /\ key[1] = last.table
           /\ key[2] = DumpsWhere(last.has_where, last.where)
           /\ key[3] # DumpsData(LastData)
           /\ ~RowsEq(select_cache[key], last.rows)

\* C3: a table just created has no rows, also when a table of that name was
\* dropped with rows in it; no name absent from the catalog has persisted rows;
\* the first insert into a re-created table returns ID 1.
C3_CreatedTableIsEmpty ==
    /\ \A t \in TableNames :
           t \notin DOMAIN db_meta => load_table_data(data_files, t) = << >>
    /\ (last.op = "create_table" /\ last.ok) => LastData = << >>
    /\ (last.op = "insert" /\ last.ok /\ last.reborn) => last.id = 1

C3_Witness ==
    /\ last.op = "create_table" /\ last.ok /\ last.reborn
    /\ last.table \in DOMAIN data_files

\* C4: every stored value has the kind its column declares in the current
\* schema: an int column holds integers and no booleans, a str column text,
\* a bool column booleans.
C4_ValuesMatchColumnTypes ==
    \A t \in DOMAIN db_meta :
        LET columns == db_meta[t].columns
            rows == load_table_data(data_files, t)
        IN \A r \in 1..Len(rows), c \in 1..Len(columns) :
               HasKey(rows[r], columns[c].name) =>
                   RowGet(rows[r], columns[c].name).k = KindOf(columns[c].type)

C4_Witness ==
    /\ last.op = "update" /\ last.ok /\ last.ids # << >>
    /\ last.set.val.k = "str" /\ last.table \in DOMAIN db_meta
    /\ column_type_of(db_meta[last.table].columns, last.set.col) = TInt

\* C5: every row has exactly the columns of the table's current schema, ID
\* first.
C5_RowsHaveSchemaColumns ==
    \A t \in DOMAIN db_meta :
        LET columns == db_meta[t].columns
            rows == load_table_data(data_files, t)
        IN \A r \in 1..Len(rows) :
               /\ Len(rows[r]) = Len(columns)
               /\ {rows[r][i].name : i \in 1..Len(rows[r])}
                      = {columns[c].name : c \in 1..Len(columns)}
               /\ rows[r][1].name = ID

C5_Witness ==
    /\ last.op = "update" /\ last.ok /\ last.ids # << >>
    /\ Len(LastData) = 2 /\ Len(LastData[1]) = 3

\* C6: the IDs of a table's rows are strictly increasing in storage order
\* (so pairwise distinct), and no operation changes the ID of a row.
C6_IdsIncreasingAndImmutable ==
    /\ \A t \in DOMAIN data_files :
           LET rows == data_files[t]
           IN \A i, j \in 1..Len(rows) :
                  i < j => RowGet(rows[i], ID).i < RowGet(rows[j], ID).i
    /\ (last.op = "update" /\ last.ok) =>
           IdsOf(last.out) = IdsOf(last.pre) /\ IdsOf(LastData) = IdsOf(last.pre)
    /\ (last.op = "insert" /\ last.ok) =>
           SubSeq(IdsOf(LastData), 1, Len(last.pre)) = IdsOf(last.pre)
    /\ (last.op = "delete" /\ last.ok) =>
           \A i \in 1..Len(LastData) : \E j \in 1..Len(last.pre) : LastData[i] = last.pre[j]

C6_Witness ==
    /\ last.op = "update" /\ last.ok /\ Len(last.ids) = 2
    /\ RowGet(LastData[1], ID) = IntV(2) /\ RowGet(LastData[2], ID) = IntV(3)

\* C7: a successful insert returns (largest ID in the table, 0 if empty) + 1,
\* appends one row with that ID and the coerced values, and leaves the rows
\* that were there, and their order, unchanged.
C7_InsertAppendsMaxPlusOne ==
    (last.op = "insert" /\ last.ok) =>
        LET user_columns == Tail(db_meta[last.table].columns)
            new_row == last.out[Len(last.out)]
        IN /\ \/ last.pre = << >> /\ last.id = 1
              \/ /\ \E i \in 1..Len(last.pre) : last.id = RowGet(last.pre[i], ID).i + 1
                 /\ \A i \in 1..Len(last.pre) : RowGet(last.pre[i], ID).i < last.id
           /\ Len(last.out) = Len(last.pre) + 1
           /\ SubSeq(last.out, 1, Len(last.pre)) = last.pre
           /\ new_row[1] = [name |-> ID, val |-> IntV(last.id)]
           /\ Len(new_row) = Len(user_columns) + 1
           /\ \A c \in 1..Len(user_columns) :
                  new_row[c + 1] =
                      [name |-> user_columns[c].name,
                       val |-> coerce_value(last.values[c], user_columns[c].type).val]
           /\ LastData = last.out

C7_Witness ==
    /\ last.op = "insert" /\ last.ok
    /\ Len(last.pre) = 1 /\ last.id = 3

\* C8: right after a successful insert, select with the normalized predicate
\* ID = newID returns exactly one row: the generated ID and the coerced values.
C8_SelectByNewIdFindsTheRow ==
    (last.op = "insert" /\ last.ok) =>
        LET user_columns == Tail(db_meta[last.table].columns)
            predicate == normalize_where_clause(db_meta, last.table,
                                                Clause(ID, IntV(last.id)))
            rows == select(LastData, TRUE, predicate.clause)
        IN /\ predicate.ok
           /\ Len(rows) = 1
           /\ Len(rows[1]) = Len(user_columns) + 1
           /\ RowGet(rows[1], ID) = IntV(last.id)
           /\ \A c \in 1..Len(user_columns) :
                  RowGet(rows[1], user_columns[c].name)
                      = coerce_value(last.values[c], user_columns[c].type).val

C8_Witness ==
    /\ last.op = "insert" /\ last.ok
    /\ Len(last.pre) = 1 /\ last.values[1].k = "str" /\ last.id = 2

\* C9: an update whose set column is ID fails, whatever the set value and the
\* where clause, and leaves every row unchanged.
C9_UpdateOfIdFails ==
    (last.op = "update" /\ last.set.col = ID) =>
        ~last.ok /\ last.out = last.pre /\ LastData = last.pre

C9_Witness ==
    /\ last.op = "update" /\ last.set.col = ID /\ last.set.val.k = "str"
    /\ last.where.col = ID
    /\ \E i \in 1..Len(last.pre) : PyEq(RowGet(last.pre[i], ID), last.where.val)

\* C10: a successful delete returns the rows whose where column differs from
\* the coerced where value, in their order, and the IDs of the matching rows
\* in storage order; when none matches, no ID and the data as it was.
C10_DeleteRemovesMatchingRows ==
    (last.op = "delete" /\ last.ok) =>
        LET columns == db_meta[last.table].columns
            value == coerce_value(last.where.val,
                                  column_type_of(columns, last.where.col)).val
            Matches(row) == PyEq(RowGet(row, last.where.col), value)
            Kept(row) == ~Matches(row)
        IN /\ last.out = SelectSeq(last.pre, Kept)
           /\ last.ids = [i \in 1..Len(SelectSeq(last.pre, Matches)) |->
                             RowGet(SelectSeq(last.pre, Matches)[i], ID).i]
           /\ (\A i \in 1..Len(last.pre) : Kept(last.pre[i])) =>
                  last.ids = << >> /\ last.out = last.pre
           /\ LastData = last.out

C10_Witness ==
    /\ last.op = "delete" /\ last.ok
    /\ Len(last.pre) = 2 /\ last.ids = << 2 >> /\ Len(last.out) = 1

\* C11: a successful update overwrites the set column with the coerced set
\* value in every row whose where column equals the coerced where value (as
\* the row was before the overwrite), returns the IDs of those rows in storage
\* order, and changes nothing else: not the other rows, the other columns,
\* the number of rows or their order.
C11_UpdateOverwritesMatchingRows ==
    (last.op = "update" /\ last.ok) =>
        LET columns == db_meta[last.table].columns
            set_value == coerce_value(last.set.val,
                                      column_type_of(columns, last.set.col)).val
            where_value == coerce_value(last.where.val,
                                        column_type_of(columns, last.where.col)).val
            Matches(row) == PyEq(RowGet(row, last.where.col), where_value)
            matching == SelectSeq(last.pre, Matches)
        IN /\ Len(last.out) = Len(last.pre)
           /\ \A i \in 1..Len(last.pre) :
                  IF Matches(last.pre[i])
                  THEN /\ Len(last.out[i]) = Len(last.pre[i])
                       /\ \A j \in 1..Len(last.pre[i]) :
                              /\ last.out[i][j].name = last.pre[i][j].name
                              /\ last.out[i][j].val =
                                     IF last.pre[i][j].name = last.set.col THEN set_value
                                     ELSE last.pre[i][j].val
                  ELSE last.out[i] = last.pre[i]
           /\ last.ids = [i \in 1..Len(matching) |-> RowGet(matching[i], ID).i]
           /\ LastData = last.out

C11_Witness ==
    /\ last.op = "update" /\ last.ok
    /\ last.set.col = last.where.col /\ last.set.val # last.where.val
    /\ Len(last.pre) = 2 /\ Len(last.ids) = 1 /\ last.out # last.pre

\* C12: an insert or update that fails (no such table, wrong number of
\* values, undeclared column, a value that cannot be coerced, at whatever
\* position) leaves the table data as it was: no row appended, none changed.
C12_FailedInsertOrUpdateChangesNothing ==
    (last.op \in {"insert", "update"} /\ ~last.ok) =>
        last.out = last.pre /\ LastData = last.pre

C12_Witness ==
    /\ last.op = "insert" /\ ~last.ok /\ last.pre # << >>
    /\ Len(last.values) = 2 /\ last.values[1] = I1 /\ last.values[2] = I1
    /\ last.table \in DOMAIN db_meta /\ Len(db_meta[last.table].columns) = 3

\* what a column token declares: the text before the first colon and the text
\* after it, both without surrounding whitespace
TokenName(token) == Strip(SubSeq(token, 1, IndexOf(token, ":") - 1))
TokenType(token) == Strip(SubSeq(token, IndexOf(token, ":") + 1, Len(token)))

\* C13: create_table with a name already in the catalog fails, whatever the
\* column list, and leaves that table's schema and the rest of the catalog
\* unchanged.
C13_CreateExistingTableFails ==
    (last.op = "create_table" /\ last.table \in DOMAIN last.meta_pre) =>
        ~last.ok /\ db_meta = last.meta_pre

C13_Witness ==
    /\ last.op = "create_table" /\ last.table = T1 /\ last.columns = << TokBStr, TokAInt >>
    /\ DOMAIN last.meta_pre = {T1, T2}
    /\ last.meta_pre[T1].columns # last.meta_pre[T2].columns

\* C14: for a valid column list, create_table followed by get_table_info on
\* the name reports ID:int first, then the declared columns with their types
\* in declaration order, and as row count the number of rows passed in.
C14_InfoListsIdThenDeclaredColumns ==
    (last.op = "create_table" /\ last.ok) =>
        LET Expected[i \in 0..Len(last.columns)] ==
                IF i = 0 THEN << "I", "D", ":", "i", "n", "t" >>
                ELSE Expected[i - 1] \o << ",", " " >> \o TokenName(last.columns[i])
                     \o << ":" >> \o TokenType(last.columns[i])
        IN \A n \in 0..MaxRows :
               LET rows == [i \in 1..n |-> << [name |-> ID, val |-> IntV(i)] >>]
                   info == get_table_info(db_meta, last.table, rows)
               IN /\ info.ok /\ info.table = last.table
                  /\ info.columns = Expected[Len(last.columns)]
                  /\ info.rows_count = n

C14_Witness ==
    /\ last.op = "create_table" /\ last.ok
    /\ last.columns = << TokCBool, TokBStr, TokAInt >>
    /\ get_table_info(db_meta, last.table, LastData).ok

\* C15: every schema of the catalog has ID:int as its first column and only
\* there, no two columns of one name, no declared column named ID in any
\* casing, no blank column name, and only the types int, str, bool; a
\* create_table request that would break any of this (or has a token without
\* a colon, or no columns) fails and leaves the catalog unchanged.
C15_SchemasAreWellFormed ==
    /\ \A t \in DOMAIN db_meta :
           LET columns == db_meta[t].columns
           IN /\ Len(columns) >= 1 /\ columns[1] = [name |-> ID, type |-> TInt]
              /\ \A i, j \in 1..Len(columns) : i # j => columns[i].name # columns[j].name
              /\ \A i \in 2..Len(columns) : Upper(columns[i].name) # ID
              /\ \A i \in 1..Len(columns) :
                     /\ \E c \in 1..Len(columns[i].name) : columns[i].name[c] # " "
                     /\ columns[i].type \in {TInt, TStr, TBool}
    /\ (last.op = "create_table" /\
        \/ last.columns = << >>
        \/ \E i \in 1..Len(last.columns) :
               \/ \A c \in 1..Len(last.columns[i]) : last.columns[i][c] # ":"
               \/ \A c \in 1..Len(TokenName(last.columns[i])) :
                      TokenName(last.columns[i])[c] = " "
               \/ Upper(TokenName(last.columns[i])) = << "I", "D" >>
               \/ TokenType(last.columns[i]) \notin {TInt, TStr, TBool}
               \/ \E j \in 1..Len(last.columns) :
                      j # i /\ TokenName(last.columns[j]) = TokenName(last.columns[i]))
       => ~last.ok /\ db_meta = last.meta_pre

C15_Witness ==
    /\ last.op = "create_table" /\ ~last.ok
    /\ last.columns = << TokAInt, TokSpaced >>
    /\ last.table \notin DOMAIN db_meta /\ DOMAIN db_meta # {}

\* a text written as an optional sign and decimal digits, and the integer it
\* denotes
IsDecimal(text) ==
    LET body == IF text # << >> /\ Head(text) \in {"+", "-"} THEN Tail(text) ELSE text
    IN body # << >> /\ \A i \in 1..Len(body) : body[i] \in {"0", "1", "2", "3", "4",
                                                            "5", "6", "7", "8", "9"}

DecimalValue(text) ==
    LET body == IF Head(text) \in {"+", "-"} THEN Tail(text) ELSE text
        F[i \in 0..Len(body)] ==
            IF i = 0 THEN 0
            ELSE 10 * F[i - 1]
                 + (CHOOSE d \in 0..9 : << "0", "1", "2", "3", "4", "5", "6",
                                          "7", "8", "9" >>[d + 1] = body[i])
    IN IF Head(text) = "-" THEN 0 - F[Len(body)] ELSE F[Len(body)]

\* C16: _coerce_value follows the table. Target int: an integer is kept, a
\* text that is a decimal integer gives that integer, a boolean and a text
\* that is no integer are rejected. Target str: a text is kept, integers and
\* booleans are rejected. Target bool: a boolean is kept, the text true/false
\* in any casing gives the boolean, everything else (the integers 0 and 1
\* too) is rejected. Any other target type is rejected.
C16_CoercionFollowsTable ==
    last.op = "coerce_value" =>
        LET value == last.value
            padless == SelectSeq(value.s, LAMBDA c : c \notin {" ", "_"})
            word == [i \in 1..Len(value.s) |->
                        CASE value.s[i] \in {"t", "T"} -> "t"
                          [] value.s[i] \in {"r", "R"} -> "r"
                          [] value.s[i] \in {"u", "U"} -> "u"
                          [] value.s[i] \in {"e", "E"} -> "e"
                          [] value.s[i] \in {"f", "F"} -> "f"
                          [] value.s[i] \in {"a", "A"} -> "a"
                          [] value.s[i] \in {"l", "L"} -> "l"
                          [] value.s[i] \in {"s", "S"} -> "s"
                          [] OTHER -> "?"]
        IN CASE last.expected_type = TInt ->
                  /\ value.k = "int" => last.ok /\ last.result = value
                  /\ value.k = "bool" => ~last.ok
                  /\ (value.k = "str" /\ IsDecimal(value.s)) =>
                         last.ok /\ last.result = IntV(DecimalValue(value.s))
                  /\ (value.k = "str" /\ last.ok) =>
                         /\ IsDecimal(padless)
                         /\ last.result = IntV(DecimalValue(padless))
             [] last.expected_type = TStr ->
                  last.ok = (value.k = "str") /\ (last.ok => last.result = value)
             [] last.expected_type = TBool ->
                  /\ value.k = "bool" => last.ok /\ last.result = value
                  /\ value.k = "int" => ~last.ok
                  /\ value.k = "str" =>
                         /\ last.ok = (word \in {<< "t", "r", "u", "e" >>,
                                                 << "f", "a", "l", "s", "e" >>})
                         /\ last.ok => last.result = BoolV(word = << "t", "r", "u", "e" >>)
             [] OTHER -> ~last.ok

C16_Witness ==
    /\ last.op = "coerce_value" /\ last.expected_type = TBool
    /\ last.value = StrV(<< "T", "r", "u", "E" >>)
    /\ last.ok /\ last.result = BoolV(TRUE)

\* C17: select without a condition returns all rows in storage order; with a
\* condition normalized against the schema it returns, in storage order,
\* exactly the rows whose value in the condition's column has the kind of the
\* condition value and equals it, so a boolean never selects an integer and a
\* text never selects an integer.
C17_SelectReturnsSameKindEqualRows ==
    last.op = "select" =>
        LET table_data == load_table_data(data_files, last.table)
            column == last.where.col
            given == last.where.val
            Keeps(row) == \E e \in 1..Len(row) :
                              /\ row[e].name = column
                              /\ row[e].val.k = last.result.k
                              /\ row[e].val = last.result
        IN IF ~last.has_where THEN last.ok /\ last.rows = table_data
           ELSE /\ last.ok => last.rows = SelectSeq(table_data, Keeps)
                /\ (last.ok /\ given.k \in {"int", "bool"}) =>
                       /\ last.result = given
                       /\ \A r \in 1..Len(last.rows) :
                              RowGet(last.rows[r], column).k = given.k
                /\ (last.ok /\ given.k = "str") =>
                       \A r \in 1..Len(last.rows) :
                           RowGet(last.rows[r], column) # given

C17_Witness ==
    /\ last.op = "select" /\ last.ok /\ last.has_where
    /\ last.where = Clause(ColC, StrV(<< "T", "r", "u", "e" >>))
    /\ Len(load_table_data(data_files, last.table)) = 2
    /\ Len(last.rows) = 1
    /\ RowGet(last.rows[1], ColA) = IntV(0) /\ RowGet(last.rows[1], ID) = IntV(2)
    /\ RowGet(load_table_data(data_files, last.table)[1], ColA) = IntV(1)

\* C18: split_csv_values fails when a double quote is left open, when there is
\* no fragment, or when a fragment between commas outside double quotes is
\* empty after trimming, be it the first, a middle one or the one after the
\* last comma; otherwise it returns the trimmed fragments in order, commas
\* inside quotes staying in their fragment.
C18_SplitRejectsEveryEmptyFragment ==
    last.op = "split_csv_values" =>
        LET text == last.text
            Quotes(i) == Cardinality({j \in 1..i : text[j] = "\""})
            commas == {i \in 1..Len(text) : text[i] = "," /\ Quotes(i) % 2 = 0}
            count == Cardinality(commas) + 1
            Start(f) == IF f = 1 THEN 1
                        ELSE 1 + CHOOSE i \in commas :
                                     Cardinality({j \in commas : j <= i}) = f - 1
            End(f) == IF f = count THEN Len(text)
                      ELSE (CHOOSE i \in commas :
                                Cardinality({j \in commas : j <= i}) = f) - 1
            trimmed == [f \in 1..count |-> Strip(SubSeq(text, Start(f), End(f)))]
        IN /\ last.ok = (/\ Quotes(Len(text)) % 2 = 0
                         /\ \A f \in 1..count : trimmed[f] # << >>)
           /\ last.ok => last.fragments = trimmed

\* C19: for a condition column = "text" the value handed on is the text
\* between the quotes, character for character, the same value the quoted
\* literal gives in an insert value list, so the condition matches a row
\* inserted with that literal.
C19_QuotedConditionTextIsVerbatim ==
    \A inner \in SeqsUpTo(InnerAlphabet, MaxInner) :
        (last.op = "where" /\ last.text = ConditionText(inner)) =>
            LET literals == split_csv_values(QuotedLiteral(inner))
                inserted == parse_scalar(literals.values[1])
            IN /\ last.ok
               /\ last.where = Clause(<< "b" >>, StrV(inner))
               /\ literals.ok /\ Len(literals.values) = 1 /\ inserted.ok
               /\ last.where.val = inserted.val
               /\ PyEq(inserted.val, last.where.val)

\* C20: parse_condition succeeds exactly when the tokens contain "=" with a
\* token before the first "=" and a token after it and the tokens after it,
\* joined with single spaces, are a valid scalar; the result has the
\* concatenated tokens before the first "=" as column and that scalar as
\* value.
C20_ParseConditionSplitsAtFirstEq ==
    last.op = "parse_condition" =>
        LET tokens == last.tokens
            eqs == {i \in 1..Len(tokens) : tokens[i] = << "=" >>}
            first == CHOOSE i \in eqs : \A j \in eqs : i <= j
            Before[i \in 0..Len(tokens)] ==
                IF i = 0 THEN << >> ELSE Before[i - 1] \o tokens[i]
            After[i \in 1..(Len(tokens) + 1)] ==
                IF i > Len(tokens) THEN << >>
                ELSE IF i = Len(tokens) THEN tokens[i]
                ELSE tokens[i] \o << " " >> \o After[i + 1]
        IN IF eqs = {} \/ first = 1 \/ first = Len(tokens) THEN ~last.ok
           ELSE /\ last.ok = parse_scalar(After[first + 1]).ok
                /\ last.ok => last.where = Clause(Before[first - 1],
                                                  parse_scalar(After[first + 1]).val)

C20_Witness ==
    /\ last.op = "parse_condition" /\ last.ok
    /\ last.tokens = << << "a" >>, << "=" >>, << "\"", "x" >>, << "y", "\"" >> >>
    /\ last.where = Clause(<< "a" >>, StrV(<< "x", " ", "y" >>))

\* C21: in the command loop the catalog and the table files change only by a
\* successful mutation: a command that fails parsing or validation, a read
\* command (select, info, list_tables) and an update or delete that matches
\* no row leave the catalog and every table file as they were, and a
\* successful mutation of one table leaves every other table's file and
\* schema as they were (an insert, update or delete the whole catalog).
C21_OnlySuccessfulMutationsPersist ==
    [][LET mutation ==
               /\ last'.ok
               /\ \/ last'.op \in {"create_table", "drop_table", "insert"}
                  \/ last'.op \in {"update", "delete"} /\ last'.ids # << >>
       IN /\ ~mutation => db_meta' = db_meta /\ data_files' = data_files
          /\ mutation =>
                 \A t \in SchemaNames \ {last'.table} :
                     /\ (t \in DOMAIN data_files') = (t \in DOMAIN data_files)
                     /\ load_table_data(data_files', t) = load_table_data(data_files, t)
                     /\ (t \in DOMAIN db_meta') = (t \in DOMAIN db_meta)
                     /\ t \in DOMAIN db_meta => db_meta'[t] = db_meta[t]
          /\ (mutation /\ last'.op \in {"insert", "update", "delete"}) =>
                 db_meta' = db_meta]_vars

C21_Witness ==
    /\ last.op = "update" /\ last.ok /\ last.ids = << >> /\ last.pre # << >>
    /\ last.table = T1 /\ load_table_data(data_files, T2) # << >>
    /\ select_cache # << >>

\* C24: drop_table and delete act only when the confirmation is answered
\* with yes: on any other answer the operation returns the failure value and
\* the catalog and every table file stay as they were, whether or not the
\* table exists or a row matches.
C24_DeclinedConfirmationChangesNothing ==
    [][(/\ last'.op \in {"drop_table", "delete"}
        /\ \A before, after \in 0..1 :
               /\ last'.answer # [i \in 1..before |-> " "] \o << "y" >>
                                    \o [i \in 1..after |-> " "]
               /\ last'.answer # [i \in 1..before |-> " "] \o << "Y" >>
                                    \o [i \in 1..after |-> " "])
       => ~last'.ok /\ db_meta' = db_meta /\ data_files' = data_files]_vars

C24_Witness ==
    /\ last.op = "delete" /\ last.answer = << "y", "e", "s" >> /\ ~last.ok
    /\ last.table \in DOMAIN db_meta
    /\ last.where = Clause(ID, I1)
    /\ last.pre # << >> /\ RowGet(last.pre[1], ID) = I1
    /\ load_table_data(data_files, last.table) = last.pre

\* C23: the result cache never evicts or overwrites: a stored entry stays
\* with its value through every later command, a lookup of a stored key
\* returns the stored value without computing, and a lookup computes only
\* for a key not stored yet and stores the result, so the compute function
\* runs at most once per key.
C23_CacheKeepsEveryEntry ==
    [][/\ \A key \in DOMAIN select_cache :
              key \in DOMAIN select_cache' /\ select_cache'[key] = select_cache[key]
       /\ (last'.op = "select" /\ last'.ok) =>
              LET key == cache_key(last'.table, last'.has_where, last'.where,
                                   load_table_data(data_files, last'.table))
              IN /\ key \in DOMAIN select_cache' /\ select_cache'[key] = last'.rows
                 /\ last'.hit = (key \in DOMAIN select_cache)
                 /\ ~last'.hit => DOMAIN select_cache' = DOMAIN select_cache \cup {key}
                 /\ last'.hit => select_cache' = select_cache]_vars

C23_Witness ==
    /\ last.op = "select" /\ last.ok /\ last.hit
    /\ Cardinality(DOMAIN select_cache) >= 2
    /\ last.rows # << >>

\* C22: no command is fatal: whatever keywords (set, where, values, from) a
\* command line holds and in whatever order, the loop handles it and goes on
\* to read the next command; only the line exit ends the loop.
C22_NoCommandIsFatal ==
    last.op \notin {"none", "line"} =>
        IF last.text = << "e", "x", "i", "t" >> THEN last.loop = "exited"
        ELSE last.loop = "reading"

====
